---- MODULE Spec2Model ----
(***************************************************************************)
(* Client-side session and task synchronisation layer of rn2-front:        *)
(* AuthProvider (SessionManager) and TodoProvider (TaskStore), both in     *)
(* src/src/components/BottomDrawer.tsx.                                    *)
(*                                                                         *)
(* Every async function is a process that advances from one await to the   *)
(* next; the code between two awaits runs as one atomic step (JavaScript   *)
(* is single threaded).  React state written with setX is the variable X;  *)
(* the values a function closes over (`token`, `todos`) are those of the   *)
(* last committed render, kept in rtoken and rtodos.                       *)
(***************************************************************************)
EXTENDS Integers, Sequences, FiniteSets, TLC

\* ------------------------------------------------------------------ bounds
MaxSessOps == 1      \* session calls made by the UI (the restore is extra)
MaxEvents == 3       \* task calls made by the UI plus token changes seen by the
                     \* task store (the fetches of the effect are extra)
MaxTasks == 2        \* ids the server hands out

\* ------------------------------------------------------------------ values
NoToken == "null"
Tokens == {"t1", "t2"}
Users == {"u1", "u2"}
Names == {"n0", "n1"}
None == "-"

\* The account a bearer token was issued for (decided by the server).
Owner(tok) == IF tok = "t1" THEN "u1" ELSE "u2"

Profile(u, n) == [id |-> u, name |-> n]

\* `null` in a useState<User | null>
NoUser == Profile("null", "null")

\* interface Todo { id; title; completed } (description is only carried along)
Todo(id, title, completed) == [id |-> id, title |-> title, completed |-> completed]

\* The slots of the task requests: a call of the UI and a token change each
\* send at most one.
ReqIds == 1..MaxEvents

\* A free slot.  `cap` is the `completed` the call read in its closure's todos,
\* `page` is <<skip, limit>>, `resp` the response body (a task as <<task>>),
\* `by` who called.  `seen` and `clean` record, for a toggle, the `completed`
\* the entry had in the state when the call started and whether no other
\* write has touched the entry since.
NoReq == [op |-> None, pc |-> "idle", id |-> 0, bearer |-> None, cap |-> FALSE,
          page |-> <<0, 0>>, resp |-> <<>>, by |-> None, seen |-> <<>>,
          clean |-> TRUE]

\* The restore process (loadToken) and the slots of the UI's session calls.
Loader == 0
SessIds == 0..MaxSessOps

VARIABLES
  user,       \* AuthProvider: useState<User | null>
  token,      \* AuthProvider: useState<string | null>
  isLoaded,   \* AuthProvider: useState(false)
  stored,     \* Preferences entry under AUTH_TOKEN_KEY
  sess,       \* the session calls in flight: slot -> [op, pc, arg, solo]
  nSess,      \* session calls started by the UI
  sq,         \* Preferences calls issued and not yet executed, in order
  srvName,    \* server: the profile name of each account
  returned,   \* what the call that completed last delivered to its caller
  rtoken,     \* `token` as the last committed render saw it
  rtodos,     \* `todos` as the last committed render saw it
  todos,      \* TodoProvider: useState<Todo[]>([])
  reqs,       \* the task requests in flight: slot -> request
  nTask,      \* task calls started by the UI
  nTok,       \* token changes made by SetToken
  srv,        \* server: the task list of each account
  nextId      \* server: the next task id

vars == <<user, token, isLoaded, stored, sess, nSess, sq, srvName, returned,
          rtoken, rtodos, todos, reqs, nTask, nTok, srv, nextId>>

taskVars == <<todos, reqs, nTask, nTok, srv, nextId>>

sessVars == <<user, token, isLoaded, stored, sess, nSess, sq, srvName>>

\* ------------------------------------------------------------------ session
Blank(pc) == [op |-> None, pc |-> pc, arg |-> None, solo |-> TRUE]

InFlight(p) == sess[p].pc \notin {"idle", "done"}

\* What a call delivers to its caller: `val` is how it ended, `data` the value
\* it resolved with (a task as <<task>>, the fetched list), `solo` whether no
\* other session call was in flight beside it.
Ret(op, val) == [op |-> op, val |-> val, data |-> <<>>, solo |-> TRUE]

\* `return response.data` of a task call.
RetData(op, data) == [Ret(op, "ok") EXCEPT !.data = data]

\* `isAuthenticated: !!user`
isAuthenticated == user # NoUser

Init ==
  /\ user = NoUser
  /\ token = NoToken
  /\ isLoaded = FALSE
  /\ stored \in {NoToken, "t1"}
  /\ sess = [p \in SessIds |->
               IF p = Loader
               THEN [op |-> "restore", pc |-> "get", arg |-> None, solo |-> TRUE]
               ELSE Blank("idle")]
  /\ nSess = 0
  /\ sq = <<Loader>>
  /\ srvName = [u \in Users |-> "n0"]
  /\ returned = Ret(None, None)
  /\ rtoken = NoToken
  /\ rtodos = <<>>
  /\ todos = <<>>
  /\ reqs = [r \in ReqIds |-> NoReq]
  /\ nTask = 0
  /\ nTok = 0
  /\ srv = [u \in Users |-> IF u = "u1" THEN <<Todo(1, "a", FALSE)>> ELSE <<>>]
  /\ nextId = 2

\* A call of the UI takes the next slot; the calls already in flight are no
\* longer alone.
NewSlot == nSess + 1

Begin(p, op, pc, arg) ==
  /\ nSess < MaxSessOps
  /\ p = NewSlot
  /\ nSess' = nSess + 1
  /\ sess' = [q \in SessIds |->
                IF q = p
                THEN [op |-> op, pc |-> pc, arg |-> arg,
                      solo |-> \A o \in SessIds : ~InFlight(o)]
                ELSE IF InFlight(q) THEN [sess[q] EXCEPT !.solo = FALSE]
                ELSE sess[q]]

Step(p, pc, arg) == sess' = [sess EXCEPT ![p].pc = pc, ![p].arg = arg]

Finish(p, val) ==
  /\ sess' = [sess EXCEPT ![p] = Blank("done")]
  /\ returned' = [Ret(sess[p].op, val) EXCEPT !.solo = sess[p].solo]

\* Preferences executes the calls in the order they were issued; a call may
\* be rejected by the platform.  The promise resolves in a later step.
StorageExec ==
  /\ sq # <<>>
  /\ LET p == Head(sq)
         pc == sess[p].pc
     IN /\ sq' = Tail(sq)
        /\ \/ /\ pc = "get"
              /\ Step(p, "get_ok", stored)
              /\ UNCHANGED stored
           \/ /\ pc = "set"
              /\ stored' = sess[p].arg
              /\ Step(p, "set_ok", sess[p].arg)
           \/ /\ pc = "rm"
              /\ stored' = NoToken
              /\ Step(p, "rm_ok", sess[p].arg)
           \/ /\ Step(p, pc \o "_err", sess[p].arg)
              /\ UNCHANGED stored
  /\ UNCHANGED <<user, token, isLoaded, nSess, srvName, returned, rtoken, rtodos, taskVars>>

\* Mutant of LogoutSync: the token is left in memory.
LogoutSyncKeepsToken(p) ==
  /\ user' = NoUser
  /\ UNCHANGED token
  /\ sq' = Append(sq, p)

\* Mutant of LogoutSync: the user is left in memory.
LogoutSyncKeepsUser(p) ==
  /\ UNCHANGED user
  /\ token' = NoToken
  /\ sq' = Append(sq, p)

\* logout, up to its await: setUser(null); setToken(null); Preferences.remove.
LogoutSync(p) ==
  /\ user' = NoUser
  /\ token' = NoToken
  /\ sq' = Append(sq, p)

\* Mutant of LoadTokenResume: getCurrentUser is called whatever was read.
LoadTokenFetchesAnyway ==
  /\ sess[Loader].pc \in {"get_ok", "get_err"}
  /\ IF sess[Loader].pc = "get_ok"
     THEN /\ token' = sess[Loader].arg
          /\ Step(Loader, "me", sess[Loader].arg)
          /\ UNCHANGED <<isLoaded, returned>>
     ELSE /\ Finish(Loader, "throw")
          /\ UNCHANGED <<token, isLoaded>>
  /\ UNCHANGED <<user, stored, nSess, sq, srvName, rtoken, rtodos, taskVars>>

\* loadToken after `await Preferences.get`.
LoadTokenResume ==
  /\ sess[Loader].pc \in {"get_ok", "get_err"}
  /\ IF sess[Loader].pc = "get_ok" /\ sess[Loader].arg # NoToken
     THEN /\ token' = sess[Loader].arg
          /\ Step(Loader, "me", sess[Loader].arg)
          /\ UNCHANGED <<isLoaded, returned>>
     ELSE IF sess[Loader].pc = "get_ok"
     THEN /\ isLoaded' = TRUE
          /\ Finish(Loader, "ok")
          /\ UNCHANGED token
     ELSE /\ Finish(Loader, "throw")
          /\ UNCHANGED <<token, isLoaded>>
  /\ UNCHANGED <<user, stored, nSess, sq, srvName, rtoken, rtodos, taskVars>>

\* What the caller of getCurrentUser does when it returns normally: loadToken
\* ends, login and loginWithGoogle `return true`.
AfterGetCurrentUser(p) == Finish(p, IF sess[p].op = "restore" THEN "ok" ELSE "true")

\* Mutant of AfterGetCurrentUserThrow: no caller catches the error.
AfterGetCurrentUserRethrow(p) == Finish(p, "throw")

\* What the caller does when getCurrentUser throws (logout threw inside its
\* catch block): loadToken rejects, login and loginWithGoogle `return false`.
AfterGetCurrentUserThrow(p) ==
  Finish(p, IF sess[p].op = "restore" THEN "throw" ELSE "false")

\* getCurrentUser, the GET /users/me succeeded with a body.
GetCurrentUserOk(p) ==
  /\ sess[p].pc = "me"
  /\ user' = Profile(Owner(sess[p].arg), srvName[Owner(sess[p].arg)])
  /\ isLoaded' = TRUE
  /\ AfterGetCurrentUser(p)
  /\ UNCHANGED <<token, stored, nSess, sq, srvName, rtoken, rtodos, taskVars>>

\* getCurrentUser, the GET failed or had no body: `await logout()`.
GetCurrentUserFail(p) ==
  /\ sess[p].pc = "me"
  /\ LogoutSync(p)
  /\ Step(p, "rm", sess[p].arg)
  /\ UNCHANGED <<isLoaded, stored, nSess, srvName, returned, rtoken, rtodos, taskVars>>

\* After `await Preferences.remove`: the end of logout, and of getCurrentUser
\* (its finally block) when logout ran inside it.
RemoveResume(p) ==
  /\ sess[p].pc \in {"rm_ok", "rm_err"}
  /\ IF sess[p].op = "logout"
     THEN /\ Finish(p, IF sess[p].pc = "rm_ok" THEN "ok" ELSE "throw")
          /\ UNCHANGED isLoaded
     ELSE /\ isLoaded' = TRUE
          /\ IF sess[p].pc = "rm_ok"
             THEN AfterGetCurrentUser(p)
             ELSE AfterGetCurrentUserThrow(p)
  /\ UNCHANGED <<user, token, stored, nSess, sq, srvName, rtoken, rtodos, taskVars>>

\* The UI calls login(email, password): POST /login is sent.
CallLogin(p) ==
  /\ Begin(p, "login", "post", None)
  /\ UNCHANGED <<user, token, isLoaded, stored, sq, srvName, returned, rtoken, rtodos, taskVars>>

\* The UI calls loginWithGoogle(): GoogleAuth.signIn() is awaited.
CallLoginWithGoogle(p) ==
  /\ Begin(p, "google", "signin", None)
  /\ UNCHANGED <<user, token, isLoaded, stored, sq, srvName, returned, rtoken, rtodos, taskVars>>

\* loginWithGoogle after GoogleAuth.signIn: with an idToken the exchange is
\* posted; without one, or on rejection, `return false`.
GoogleSignInResume(p, ok) ==
  /\ sess[p].pc = "signin"
  /\ IF ok
     THEN Step(p, "post", None) /\ UNCHANGED returned
     ELSE Finish(p, "false")
  /\ UNCHANGED <<user, token, isLoaded, stored, nSess, sq, srvName, rtoken, rtodos, taskVars>>

\* login / loginWithGoogle, the POST answered with an access_token:
\* setToken(access_token); Preferences.set is issued and awaited.
LoginTokenIssued(p, tok) ==
  /\ sess[p].op \in {"login", "google"}
  /\ sess[p].pc = "post"
  /\ token' = tok
  /\ sq' = Append(sq, p)
  /\ Step(p, "set", tok)
  /\ UNCHANGED <<user, isLoaded, stored, nSess, srvName, returned, rtoken, rtodos, taskVars>>

\* Mutant of LoginRejected: the session is cleared before `return false`.
LoginRejectedClears(p) ==
  /\ sess[p].op \in {"login", "google"}
  /\ sess[p].pc = "post"
  /\ user' = NoUser
  /\ token' = NoToken
  /\ Finish(p, "false")
  /\ UNCHANGED <<isLoaded, stored, nSess, sq, srvName, rtoken, rtodos, taskVars>>

\* login / loginWithGoogle, the POST failed or its body has no access_token.
LoginRejected(p) ==
  /\ sess[p].op \in {"login", "google"}
  /\ sess[p].pc = "post"
  /\ Finish(p, "false")
  /\ UNCHANGED <<user, token, isLoaded, stored, nSess, sq, srvName, rtoken, rtodos, taskVars>>

\* Mutant of SetResume: a rejected Preferences.set is ignored.
SetResumeIgnoresRejection(p) ==
  /\ sess[p].pc \in {"set_ok", "set_err"}
  /\ Step(p, "me", sess[p].arg)
  /\ UNCHANGED <<user, token, isLoaded, stored, nSess, sq, srvName, returned,
                 rtoken, rtodos, taskVars>>

\* login / loginWithGoogle after `await Preferences.set`: getCurrentUser is
\* called (GET /users/me is sent), or the rejection is caught.
SetResume(p) ==
  /\ sess[p].pc \in {"set_ok", "set_err"}
  /\ IF sess[p].pc = "set_ok"
     THEN Step(p, "me", sess[p].arg) /\ UNCHANGED returned
     ELSE Finish(p, "false")
  /\ UNCHANGED <<user, token, isLoaded, stored, nSess, sq, srvName, rtoken, rtodos, taskVars>>

\* The UI calls register(email, password): POST /register is sent.
CallRegister(p) ==
  /\ Begin(p, "register", "post", None)
  /\ UNCHANGED <<user, token, isLoaded, stored, sq, srvName, returned, rtoken, rtodos, taskVars>>

\* register, the POST answered with `info`: setUser(response.data.info).
RegisterOk(p, u) ==
  /\ sess[p].op = "register"
  /\ sess[p].pc = "post"
  /\ user' = Profile(u, "n0")
  /\ Finish(p, "true")
  /\ UNCHANGED <<token, isLoaded, stored, nSess, sq, srvName, rtoken, rtodos, taskVars>>

\* register, the POST failed (400 or other) or its body has no `info`.
RegisterFail(p) ==
  /\ sess[p].op = "register"
  /\ sess[p].pc = "post"
  /\ Finish(p, "false")
  /\ UNCHANGED <<user, token, isLoaded, stored, nSess, sq, srvName, rtoken, rtodos, taskVars>>

\* The UI calls logout().
CallLogout(p) ==
  /\ Begin(p, "logout", "rm", None)
  /\ LogoutSync(p)
  /\ UNCHANGED <<isLoaded, stored, srvName, returned, rtoken, rtodos, taskVars>>

\* The UI calls updateProfile(data): PUT /users/profile is sent with the
\* token of the render the function was created in.
CallUpdateProfile(p) ==
  /\ Begin(p, "updateProfile", "put", rtoken)
  /\ UNCHANGED <<user, token, isLoaded, stored, sq, srvName, returned, rtoken, rtodos, taskVars>>

\* updateProfile, the PUT succeeded (the server knows the bearer).
UpdateProfileOk(p) ==
  /\ sess[p].pc = "put"
  /\ sess[p].arg \in Tokens
  /\ srvName' = [srvName EXCEPT ![Owner(sess[p].arg)] = "n1"]
  /\ user' = Profile(Owner(sess[p].arg), "n1")
  /\ Finish(p, "ok")
  /\ UNCHANGED <<token, isLoaded, stored, nSess, sq, rtoken, rtodos, taskVars>>

\* Mutant of UpdateProfileFail: the user is dropped when the PUT fails.
UpdateProfileFailDropsUser(p) ==
  /\ sess[p].pc = "put"
  /\ user' = NoUser
  /\ Finish(p, "throw")
  /\ UNCHANGED <<token, isLoaded, stored, nSess, sq, srvName, rtoken, rtodos, taskVars>>

\* updateProfile, the PUT failed: the error is thrown again.
UpdateProfileFail(p) ==
  /\ sess[p].pc = "put"
  /\ Finish(p, "throw")
  /\ UNCHANGED <<user, token, isLoaded, stored, nSess, sq, srvName, rtoken, rtodos, taskVars>>

\* React commits a render of AuthProvider: its functions now close over the
\* current token.
RenderAuth ==
  /\ rtoken # token
  /\ rtoken' = token
  /\ UNCHANGED <<user, token, isLoaded, stored, sess, nSess, sq, srvName, returned,
                 rtodos, taskVars>>

\* ------------------------------------------------------------------ tasks
DefaultSkip == 0
DefaultLimit == 100

TaskIds == 1..MaxTasks

HasId(s, id) == \E i \in 1..Len(s) : s[i].id = id

\* Array.prototype.find: the first entry with the id.
Find(s, id) ==
  s[CHOOSE i \in 1..Len(s) : s[i].id = id /\ \A j \in 1..(i - 1) : s[j].id # id]

\* prevTodos.map(todo => todo.id === id ? t : todo)
ReplaceId(s, id, t) == [i \in 1..Len(s) |-> IF s[i].id = id THEN t ELSE s[i]]

\* prevTodos.map(todo => todo.id === id ? {...todo, completed: !todo.completed} : todo)
FlipId(s, id) ==
  [i \in 1..Len(s) |->
     IF s[i].id = id THEN [s[i] EXCEPT !.completed = ~s[i].completed] ELSE s[i]]

\* prevTodos.map(todo => todo.id === id ? {...todo, completed: c} : todo)
SetCompletedId(s, id, c) ==
  [i \in 1..Len(s) |-> IF s[i].id = id THEN [s[i] EXCEPT !.completed = c] ELSE s[i]]

\* prevTodos.filter(todo => todo.id !== id)
RemoveId(s, id) == SelectSeq(s, LAMBDA t : t.id # id)

\* The server's page for ?skip=&limit=
Page(s, skip, limit) ==
  SubSeq(s, skip + 1, IF skip + limit < Len(s) THEN skip + limit ELSE Len(s))

Sent(r) == reqs[r].pc = "sent"
Answered(r) == reqs[r].pc = "answered"
Pending(r) == reqs[r].pc # "idle"

\* The environment of the task store may act once more.
MoreEvents == nTask + nTok < MaxEvents

FreeSlot ==
  CHOOSE r \in ReqIds : ~Pending(r) /\ \A q \in ReqIds : q < r => Pending(q)

\* The toggles in flight on one of `ids`, other than `r`, have had their entry
\* written by somebody else.
Touch(rq, ids, r) ==
  [q \in ReqIds |->
     IF q # r /\ rq[q].op = "toggle" /\ rq[q].id \in ids
     THEN [rq[q] EXCEPT !.clean = FALSE]
     ELSE rq[q]]

Request(op, id, page, by) ==
  [NoReq EXCEPT !.op = op, !.pc = "sent", !.id = id, !.bearer = rtoken,
                !.page = page, !.by = by]

\* The session layer changes the token the task store reads from useAuth():
\* setToken(access_token) of login, setToken(storedToken) of loadToken,
\* setToken(null) of logout.
SetToken(tok) ==
  /\ MoreEvents
  /\ tok # token
  /\ token' = tok
  /\ nTok' = nTok + 1
  /\ UNCHANGED <<user, isLoaded, stored, sess, nSess, sq, srvName, returned,
                 rtoken, rtodos, todos, reqs, nTask, srv, nextId>>

\* Mutant of TokenEffect: the fetch is sent only when the token was absent.
TokenEffectFromAbsent ==
  IF rtoken = NoToken /\ token # NoToken
  THEN reqs' = [reqs EXCEPT ![FreeSlot] =
                  [Request("get", 0, <<0, 100>>, "effect") EXCEPT !.bearer = token]]
  ELSE UNCHANGED reqs

\* useEffect(() => { if (token) getTodos() }, [token]), run by the commit in
\* which the rendered token differs from the one of the previous commit.
TokenEffect ==
  IF token # rtoken /\ token # NoToken
  THEN reqs' = [reqs EXCEPT ![FreeSlot] =
                  [Request("get", 0, <<DefaultSkip, DefaultLimit>>, "effect")
                     EXCEPT !.bearer = token]]
  ELSE UNCHANGED reqs

\* React commits a render of the providers: the functions now close over the
\* current token and todos, and the effects whose dependencies changed run.
Render ==
  /\ <<rtoken, rtodos>> # <<token, todos>>
  /\ rtoken' = token
  /\ rtodos' = todos
  /\ TokenEffect
  /\ UNCHANGED <<sessVars, token, returned, todos, nTask, nTok, srv, nextId>>

\* The UI calls getTodos(skip, limit): the GET is sent.
CallGetTodos(skip, limit) ==
  /\ MoreEvents
  /\ nTask' = nTask + 1
  /\ reqs' = [reqs EXCEPT ![FreeSlot] = Request("get", 0, <<skip, limit>>, "ui")]
  /\ UNCHANGED <<sessVars, token, returned, rtoken, rtodos, todos, nTok, srv, nextId>>

\* The UI calls createTodo(title): the POST is sent.
CallCreateTodo ==
  /\ MoreEvents
  /\ nextId + Cardinality({r \in ReqIds : Sent(r) /\ reqs[r].op = "create"}) <= MaxTasks
  /\ nTask' = nTask + 1
  /\ reqs' = [reqs EXCEPT ![FreeSlot] = Request("create", 0, <<0, 0>>, "ui")]
  /\ UNCHANGED <<sessVars, token, returned, rtoken, rtodos, todos, nTok, srv, nextId>>

\* The UI calls updateTodo(id, {title}): the PUT is sent.
CallUpdateTodo(id) ==
  /\ MoreEvents
  /\ nTask' = nTask + 1
  /\ reqs' = [reqs EXCEPT ![FreeSlot] = Request("update", id, <<0, 0>>, "ui")]
  /\ UNCHANGED <<sessVars, token, returned, rtoken, rtodos, todos, nTok, srv, nextId>>

\* The UI calls deleteTodo(id): the DELETE is sent.
CallDeleteTodo(id) ==
  /\ MoreEvents
  /\ nTask' = nTask + 1
  /\ reqs' = [reqs EXCEPT ![FreeSlot] = Request("delete", id, <<0, 0>>, "ui")]
  /\ UNCHANGED <<sessVars, token, returned, rtoken, rtodos, todos, nTok, srv, nextId>>

\* Mutant of ToggleOptimistic: nothing is written before the response.
ToggleNotOptimistic(s, id) == s

\* toggleTodoCompleted, the optimistic write.
ToggleOptimistic(s, id) == FlipId(s, id)

\* Mutant of CallToggleTodoCompleted: the entry is not looked up first.
CallToggleUnchecked(id) ==
  /\ MoreEvents
  /\ nTask' = nTask + 1
  /\ todos' = ToggleOptimistic(todos, id)
  /\ reqs' = [Touch(reqs, {id}, FreeSlot) EXCEPT ![FreeSlot] =
                [Request("toggle", id, <<0, 0>>, "ui")
                   EXCEPT !.cap = IF HasId(rtodos, id)
                                  THEN Find(rtodos, id).completed
                                  ELSE FALSE,
                          !.seen = IF HasId(todos, id)
                                   THEN <<Find(todos, id).completed>>
                                   ELSE <<>>]]
  /\ UNCHANGED <<sessVars, token, returned, rtoken, rtodos, nTok, srv, nextId>>

\* The UI calls toggleTodoCompleted(id).  The entry is looked up in the todos
\* of the closure; when it is missing the error is thrown, caught (the catch
\* block finds no entry either) and thrown again.  Otherwise the optimistic
\* write is queued on the current state and the PUT is sent.
CallToggleTodoCompleted(id) ==
  /\ MoreEvents
  /\ nTask' = nTask + 1
  /\ IF ~HasId(rtodos, id)
     THEN /\ returned' = Ret("toggle", "notfound")
          /\ UNCHANGED <<todos, reqs>>
     ELSE /\ todos' = ToggleOptimistic(todos, id)
          /\ reqs' = [Touch(reqs, {id}, FreeSlot) EXCEPT ![FreeSlot] =
                        [Request("toggle", id, <<0, 0>>, "ui")
                           EXCEPT !.cap = Find(rtodos, id).completed,
                                  !.seen = IF HasId(todos, id)
                                           THEN <<Find(todos, id).completed>>
                                           ELSE <<>>]]
          /\ UNCHANGED returned
  /\ UNCHANGED <<sessVars, token, rtoken, rtodos, nTok, srv, nextId>>

\* The server handles a request whose bearer it knows, on the list of the
\* bearer's account, and answers 2xx.
ServerAnswer(r) ==
  /\ Sent(r)
  /\ reqs[r].bearer \in Tokens
  /\ LET q == reqs[r]
         u == Owner(q.bearer)
         list == srv[u]
         Answer(resp) == reqs' = [reqs EXCEPT ![r].pc = "answered", ![r].resp = resp]
     IN \/ /\ q.op = "get"
           /\ Answer(Page(list, q.page[1], q.page[2]))
           /\ UNCHANGED <<srv, nextId>>
        \/ /\ q.op = "create"
           /\ nextId <= MaxTasks
           /\ srv' = [srv EXCEPT ![u] = Append(list, Todo(nextId, "a", FALSE))]
           /\ nextId' = nextId + 1
           /\ Answer(<<Todo(nextId, "a", FALSE)>>)
        \/ /\ q.op = "update"
           /\ HasId(list, q.id)
           /\ srv' = [srv EXCEPT ![u] =
                        ReplaceId(list, q.id, [Find(list, q.id) EXCEPT !.title = "b"])]
           /\ Answer(<<[Find(list, q.id) EXCEPT !.title = "b"]>>)
           /\ UNCHANGED nextId
        \/ /\ q.op = "toggle"
           /\ HasId(list, q.id)
           /\ srv' = [srv EXCEPT ![u] =
                        ReplaceId(list, q.id, [Find(list, q.id) EXCEPT !.completed = ~q.cap])]
           /\ Answer(<<[Find(list, q.id) EXCEPT !.completed = ~q.cap]>>)
           /\ UNCHANGED nextId
        \/ /\ q.op = "delete"
           /\ HasId(list, q.id)
           /\ srv' = [srv EXCEPT ![u] = RemoveId(list, q.id)]
           /\ Answer(<<Find(list, q.id)>>)
           /\ UNCHANGED nextId
  /\ UNCHANGED <<sessVars, token, returned, rtoken, rtodos, todos, nTask, nTok>>

\* Mutant of GetTodosApply: the response is merged into the collection.
GetTodosMerge(s, fetched) == s \o fetched

\* getTodos: setTodos(fetchedTodos)
GetTodosApply(s, fetched) == fetched

\* createTodo: setTodos(prevTodos => [...prevTodos, newTodo])
CreateTodoApply(s, newTodo) == Append(s, newTodo)

\* Mutant of UpdateTodoApply: only the title of the response is taken over.
UpdateTodoMergesTitle(s, id, updatedTodo) ==
  [i \in 1..Len(s) |->
     IF s[i].id = id THEN [s[i] EXCEPT !.title = updatedTodo.title] ELSE s[i]]

\* Mutant of UpdateTodoApply: a response whose id is not in the collection is
\* added to it.
UpdateTodoUpserts(s, id, updatedTodo) ==
  IF HasId(s, id) THEN ReplaceId(s, id, updatedTodo) ELSE Append(s, updatedTodo)

\* updateTodo: setTodos(prevTodos => prevTodos.map(... updatedTodo ...))
UpdateTodoApply(s, id, updatedTodo) == ReplaceId(s, id, updatedTodo)

\* Mutant of DeleteTodoApply: the first entry is removed, whatever its id.
DeleteTodoRemovesFirst(s, id) == IF s = <<>> THEN s ELSE Tail(s)

\* deleteTodo: setTodos(prevTodos => prevTodos.filter(todo => todo.id !== id))
DeleteTodoApply(s, id) == RemoveId(s, id)

\* Mutant of ToggleConfirm: only `completed` of the response is taken over.
ToggleConfirmCompletedOnly(s, id, updatedTodo) ==
  SetCompletedId(s, id, updatedTodo.completed)

\* toggleTodoCompleted: setTodos(prevTodos => prevTodos.map(... updatedTodo ...))
ToggleConfirm(s, id, updatedTodo) == ReplaceId(s, id, updatedTodo)

\* Mutant of ToggleRollback: nothing is written back.
ToggleRollbackSkipped(s, id, cap) == s

\* Mutant of ToggleRollback: the current value is flipped a second time.
ToggleReflip(s, id, cap) == FlipId(s, id)

\* toggleTodoCompleted, the catch block: the entry found in the closure's
\* todos gives the `completed` to write back.
ToggleRollback(s, id, cap) == SetCompletedId(s, id, cap)

\* The response of an answered request arrives: the code after the await.
Deliver(r) ==
  /\ Answered(r)
  /\ LET q == reqs[r]
     IN /\ todos' = CASE q.op = "get" -> GetTodosApply(todos, q.resp)
                      [] q.op = "create" -> CreateTodoApply(todos, q.resp[1])
                      [] q.op = "update" -> UpdateTodoApply(todos, q.id, q.resp[1])
                      [] q.op = "delete" -> DeleteTodoApply(todos, q.id)
                      [] q.op = "toggle" -> ToggleConfirm(todos, q.id, q.resp[1])
        /\ reqs' = [Touch(reqs, CASE q.op = "get" -> TaskIds
                                  [] q.op = "create" -> {}
                                  [] OTHER -> {q.id}, r)
                      EXCEPT ![r] = NoReq]
        /\ returned' = RetData(q.op, q.resp)
  /\ UNCHANGED <<sessVars, token, rtoken, rtodos, nTask, nTok, srv, nextId>>

\* Mutant of Fail: a deleteTodo that failed removes the entry all the same.
FailAppliesDelete(r) ==
  /\ Sent(r)
  /\ LET q == reqs[r]
     IN /\ todos' = IF q.op = "toggle"
                    THEN ToggleRollback(todos, q.id, q.cap)
                    ELSE IF q.op = "delete"
                    THEN DeleteTodoApply(todos, q.id)
                    ELSE todos
        /\ reqs' = [Touch(reqs, IF q.op = "toggle" THEN {q.id} ELSE {}, r)
                      EXCEPT ![r] = NoReq]
        /\ returned' = Ret(q.op, "throw")
  /\ UNCHANGED <<sessVars, token, rtoken, rtodos, nTask, nTok, srv, nextId>>

\* A request fails (no connection, 401 for an unknown bearer, 404, 5xx) and
\* the server has changed nothing: the catch block, which throws again.
Fail(r) ==
  /\ Sent(r)
  /\ LET q == reqs[r]
     IN /\ todos' = IF q.op = "toggle"
                    THEN ToggleRollback(todos, q.id, q.cap)
                    ELSE todos
        /\ reqs' = [Touch(reqs, IF q.op = "toggle" THEN {q.id} ELSE {}, r)
                      EXCEPT ![r] = NoReq]
        /\ returned' = Ret(q.op, "throw")
  /\ UNCHANGED <<sessVars, token, rtoken, rtodos, nTask, nTok, srv, nextId>>

TaskNext ==
  \/ \E tok \in Tokens \cup {NoToken} : SetToken(tok)
  \/ Render
  \/ \E pg \in {<<0, 100>>, <<1, 100>>, <<0, 1>>} : CallGetTodos(pg[1], pg[2])
  \/ CallCreateTodo
  \/ \E id \in TaskIds :
       \/ CallUpdateTodo(id)
       \/ CallDeleteTodo(id)
       \/ CallToggleTodoCompleted(id)
  \/ \E r \in ReqIds :
       \/ ServerAnswer(r)
       \/ Deliver(r)
       \/ Fail(r)

\* The task store, with the session layer as its environment.
SpecTasks == Init /\ [][TaskNext]_vars


\* ------------------------------------------------------------------ specifications
SessionNext ==
  \/ StorageExec
  \/ LoadTokenResume
  \/ \E p \in SessIds :
       \/ GetCurrentUserOk(p)
       \/ GetCurrentUserFail(p)
       \/ RemoveResume(p)
       \/ CallLogin(p)
       \/ CallLoginWithGoogle(p)
       \/ \E ok \in BOOLEAN : GoogleSignInResume(p, ok)
       \/ \E tok \in Tokens : LoginTokenIssued(p, tok)
       \/ LoginRejected(p)
       \/ SetResume(p)
       \/ CallRegister(p)
       \/ \E u \in Users : RegisterOk(p, u)
       \/ RegisterFail(p)
       \/ CallLogout(p)
       \/ CallUpdateProfile(p)
       \/ UpdateProfileOk(p)
       \/ UpdateProfileFail(p)

Next == SessionNext \/ RenderAuth

Spec == Init /\ [][Next]_vars

\* The session layer when the UI only logs in: the restore, login and
\* loginWithGoogle, with every outcome of their requests and storage calls.
LoginNext ==
  \/ StorageExec
  \/ LoadTokenResume
  \/ RenderAuth
  \/ \E p \in SessIds :
       \/ GetCurrentUserOk(p)
       \/ GetCurrentUserFail(p)
       \/ RemoveResume(p)
       \/ CallLogin(p)
       \/ CallLoginWithGoogle(p)
       \/ \E ok \in BOOLEAN : GoogleSignInResume(p, ok)
       \/ \E tok \in Tokens : LoginTokenIssued(p, tok)
       \/ LoginRejected(p)
       \/ SetResume(p)

SpecLogin == Init /\ [][LoginNext]_vars

\* The process ends and the app is started again: AuthProvider is mounted
\* anew (useState initial values, loadToken is called), the calls that were in
\* flight are gone with the old process, Preferences and the server keep what
\* they have.  `returned` keeps telling what the last completed call delivered.
Restart ==
  /\ user' = NoUser
  /\ token' = NoToken
  /\ isLoaded' = FALSE
  /\ rtoken' = NoToken
  /\ sess' = [p \in SessIds |->
                IF p = Loader
                THEN [op |-> "restore", pc |-> "get", arg |-> None, solo |-> TRUE]
                ELSE Blank("idle")]
  /\ sq' = <<Loader>>
  /\ UNCHANGED <<stored, nSess, srvName, returned, rtodos, taskVars>>

\* The session layer over several runs of the app.
RestartNext == Next \/ Restart

SpecRestart == Init /\ [][RestartNext]_vars

\* A session that has been restored, with the task list fetched and rendered:
\* the state the app is in when the user starts working on the list.
InitSynced ==
  /\ user = Profile("u1", "n0")
  /\ token = "t1"
  /\ isLoaded = TRUE
  /\ stored = "t1"
  /\ sess = [p \in SessIds |-> IF p = Loader THEN Blank("done") ELSE Blank("idle")]
  /\ nSess = 0
  /\ sq = <<>>
  /\ srvName = [u \in Users |-> "n0"]
  /\ srv = [u \in Users |-> IF u = "u1" THEN <<Todo(1, "a", FALSE)>> ELSE <<>>]
  /\ returned = RetData("get", srv["u1"])
  /\ rtoken = "t1"
  /\ todos = srv["u1"]
  /\ rtodos = srv["u1"]
  /\ reqs = [r \in ReqIds |-> NoReq]
  /\ nTask = 0
  /\ nTok = 0
  /\ nextId = 2

\* The user toggles tasks and refreshes the list.
SyncedNext ==
  \/ Render
  \/ CallGetTodos(DefaultSkip, DefaultLimit)
  \/ \E id \in TaskIds : CallToggleTodoCompleted(id)
  \/ \E r \in ReqIds :
       \/ ServerAnswer(r)
       \/ Deliver(r)
       \/ Fail(r)

SpecSynced == InitSynced /\ [][SyncedNext]_vars

\* The two providers together: the session layer runs, React commits renders
\* of the providers (the task store's effect on the token runs with them) and
\* the task requests of the effect are answered, delivered or fail.
AppNext ==
  \/ SessionNext
  \/ Render
  \/ \E r \in ReqIds :
       \/ ServerAnswer(r)
       \/ Deliver(r)
       \/ Fail(r)

SpecApp == Init /\ [][AppNext]_vars

\* The task store when every request succeeds and every fetch asks for the
\* whole list: only the order of requests and responses is left open.
NoFailNext ==
  \/ \E tok \in Tokens \cup {NoToken} : SetToken(tok)
  \/ Render
  \/ CallGetTodos(DefaultSkip, DefaultLimit)
  \/ CallCreateTodo
  \/ \E id \in TaskIds :
       \/ CallUpdateTodo(id)
       \/ CallDeleteTodo(id)
       \/ CallToggleTodoCompleted(id)
  \/ \E r \in ReqIds :
       \/ ServerAnswer(r)
       \/ Deliver(r)

SpecNoFail == Init /\ [][NoFailNext]_vars

\* ------------------------------------------------------------------ claims

\* The step in which session call p delivers its result to its caller.
Returns(p, ops) == sess[p].op \in ops /\ sess'[p].pc = "done"

\* C1: in every reachable state of the session layer, `user` is never present
\* while `token` is absent.
C1_UserNeedsToken == user # NoUser => token # NoToken

\* C2: whenever no task request is in flight, the local collection equals the
\* server's task list of the current user.  Stated for the most favourable
\* case: one token for the whole run, seen by the last render (so the fetch of
\* the effect has been sent), under SpecNoFail (no request fails, every fetch
\* asks for the whole list).
C2_QuiescentMirror ==
  (/\ \A r \in ReqIds : ~Pending(r)
   /\ token \in Tokens
   /\ rtoken = token
   /\ nTok = 1)
  => todos = srv[Owner(token)]

\* C3: when the PUT of toggleTodoCompleted(id) fails, every local entry with
\* that id gets the `completed` the call captured when it started, nothing
\* else in the collection changes, and the call throws.
C3_RollbackToCaptured ==
  [][\A r \in ReqIds :
       (reqs[r].op = "toggle" /\ Sent(r) /\ reqs'[r].pc = "idle")
       => /\ Len(todos') = Len(todos)
          /\ \A i \in 1..Len(todos) :
               /\ todos'[i].id = todos[i].id
               /\ todos'[i].title = todos[i].title
               /\ todos'[i].completed = IF todos[i].id = reqs[r].id
                                        THEN reqs[r].cap
                                        ELSE todos[i].completed
          /\ returned' = Ret("toggle", "throw")]_vars

\* C3 witness: a toggle has thrown and the collection still holds the task.
C3_Witness == returned = Ret("toggle", "throw") /\ HasId(todos, 1)

\* C4: while a toggleTodoCompleted(id) awaits its response and no other write
\* has touched the entry, the entry shows the negation of the `completed` it
\* had in the state when the call started.
C4_OptimisticFlip ==
  \A r \in ReqIds :
    (reqs[r].op = "toggle" /\ Pending(r) /\ reqs[r].clean /\ reqs[r].seen # <<>>)
    => /\ HasId(todos, reqs[r].id)
       /\ Find(todos, reqs[r].id).completed = ~reqs[r].seen[1]

\* C4 witness: a toggle is awaiting the server's answer, undisturbed, and the
\* entry shows completed = TRUE where it was FALSE.
C4_Witness ==
  \E r \in ReqIds :
    /\ reqs[r].op = "toggle" /\ Sent(r) /\ reqs[r].clean
    /\ reqs[r].seen = <<FALSE>>
    /\ HasId(todos, reqs[r].id)
    /\ Find(todos, reqs[r].id).completed

\* C5: when the profile fetch of a restore or of a login fails, the call ends
\* with the session logged out: token and user absent, the stored token
\* removed, isLoaded true, isAuthenticated false.  Stated for a call with no
\* other session call beside it and a Preferences.remove that is carried out.
C5_ProfileFailureLogsOut ==
  [][\A p \in SessIds :
       (/\ Returns(p, {"restore", "login", "google"})
        /\ sess[p].pc = "rm_ok"
        /\ sess[p].solo)
       => /\ token' = NoToken
          /\ user' = NoUser
          /\ stored' = NoToken
          /\ isLoaded'
          /\ ~isAuthenticated']_vars

\* C5 witness: the restore found a token, its profile fetch failed, the entry
\* has been removed, and getCurrentUser is about to end.
C5_Witness ==
  /\ sess[Loader].pc = "rm_ok"
  /\ sess[Loader].solo
  /\ sess[Loader].arg = "t1"
  /\ stored = NoToken
  /\ token = NoToken

\* C6: a login or loginWithGoogle that returns true, with no other session
\* call beside it, leaves the token in memory and in storage and `user` set.
C6_LoginTrueAuthenticates ==
  [][\A p \in SessIds :
       (/\ Returns(p, {"login", "google"})
        /\ returned'.val = "true"
        /\ sess[p].solo)
       => /\ token' \in Tokens
          /\ stored' = token'
          /\ isAuthenticated']_vars

\* C7: register alone never authenticates: from a logged-out session with no
\* other session call beside it, when register returns, isAuthenticated is
\* still false and the token is absent in memory and in storage.
C7_RegisterNeverAuthenticates ==
  [][\A p \in SessIds :
       (/\ Returns(p, {"register"})
        /\ sess[p].solo
        /\ user = NoUser /\ token = NoToken /\ stored = NoToken)
       => /\ ~isAuthenticated'
          /\ token' = NoToken
          /\ stored' = NoToken]_vars

\* C8: a task operation invoked while no token is available issues no remote
\* request: no request in flight carries an absent bearer.
C8_NoRequestWithoutToken == \A r \in ReqIds : Pending(r) => reqs[r].bearer # NoToken

\* The fetches the effect sends in this step.
EffectFetches ==
  {r \in ReqIds : ~Pending(r) /\ reqs'[r].pc = "sent" /\ reqs'[r].by = "effect"}

\* C9 as claimed: the task store sends its resynchronizing fetch exactly when
\* the token it observes goes from absent to present, and for no other change.
C9_FetchOnlyFromAbsent ==
  [][Cardinality(EffectFetches) =
       IF rtoken = NoToken /\ rtoken' # NoToken THEN 1 ELSE 0]_vars

\* C9 as amended: the task store sends one fetch, with the new token, in
\* exactly the commits in which the token it observes has changed to a present
\* value (from absent or from another token), and none in any other step.
C9_FetchOnTokenChange ==
  [][/\ Cardinality(EffectFetches) =
          IF rtoken' # rtoken /\ rtoken' # NoToken THEN 1 ELSE 0
     /\ \A r \in EffectFetches : reqs'[r].bearer = rtoken']_vars

\* C9 witness: the fetches of two commits are in flight, one for each token:
\* the second commit saw the token replaced.
C9_Witness ==
  /\ nTok = 2
  /\ token = "t2"
  /\ \E r1, r2 \in ReqIds :
       /\ reqs[r1].by = "effect" /\ reqs[r1].bearer = "t1" /\ Pending(r1)
       /\ reqs[r2].by = "effect" /\ reqs[r2].bearer = "t2" /\ Pending(r2)

\* C10: a successful getTodos replaces the whole collection by the response,
\* in the response's order, and returns it: nothing that was there before and
\* is not in the response stays.
C10_FetchReplaces ==
  [][\A r \in ReqIds :
       (reqs[r].op = "get" /\ Answered(r) /\ reqs'[r].pc = "idle")
       => /\ todos' = reqs[r].resp
          /\ \A i \in 1..Len(todos) :
               (\A j \in 1..Len(reqs[r].resp) : reqs[r].resp[j] # todos[i])
               => \A k \in 1..Len(todos') : todos'[k] # todos[i]
          /\ returned' = RetData("get", reqs[r].resp)]_vars

\* C10 witness: a fetch of one page has completed and the collection holds
\* one task although the account has two on the server.
C10_Witness ==
  /\ returned.op = "get" /\ returned.val = "ok"
  /\ Len(todos) = 1
  /\ rtoken = "t1"
  /\ Len(srv["u1"]) = 2

\* The step in which the response of request r is handed to the code after the
\* await (Delivered) or the request fails (Failed).
Delivered(r, op) == reqs[r].op = op /\ Answered(r) /\ reqs'[r].pc = "idle"
Failed(r, ops) == reqs[r].op \in ops /\ Sent(r) /\ reqs'[r].pc = "idle"

\* The step in which the UI starts a call `op`: request r is sent.
Started(r, op) == ~Pending(r) /\ reqs'[r].op = op /\ reqs'[r].pc = "sent"

\* No id occurs twice in s.
DistinctIds(s) == \A i, j \in 1..Len(s) : s[i].id = s[j].id => i = j

\* C11, the part on one call: a createTodo adds nothing when it is called nor
\* when the server answers; when its response arrives the collection is the
\* previous one, entry by entry, with the server's task after it, and the call
\* returns that task.
C11_AppendsResponse ==
  [][\A r \in ReqIds :
       /\ (Started(r, "create") \/ (reqs[r].op = "create" /\ Sent(r) /\ Answered(r)'))
          => todos' = todos
       /\ Delivered(r, "create")
          => /\ Len(todos') = Len(todos) + 1
             /\ \A i \in 1..Len(todos) : todos'[i] = todos[i]
             /\ todos'[Len(todos')] = reqs[r].resp[1]
             /\ returned' = RetData("create", reqs[r].resp)]_vars

\* C11: over every sequence of successful createTodo calls, with a server that
\* hands out distinct ids, the ids in the collection are distinct.
C11_CreatedIdsDistinct == DistinctIds(todos)

\* The positions of s that hold id, all of them or those before position i.
Holding(s, id) == {j \in 1..Len(s) : s[j].id = id}
HoldingBefore(s, id, i) == {j \in Holding(s, id) : j < i}

C13_UpdateRequestThenApply ==
  [][\A r \in ReqIds :
       /\ (Started(r, "update") \/ (reqs[r].op = "update" /\ Sent(r) /\ Answered(r)'))
          => todos' = todos
       /\ Delivered(r, "update")
          => /\ Len(todos') = Len(todos)
             /\ \A i \in 1..Len(todos) :
                  todos'[i] = IF todos[i].id = reqs[r].id
                              THEN reqs[r].resp[1]
                              ELSE todos[i]
             /\ returned' = RetData("update", reqs[r].resp)]_vars

\* C13 witness: updateTodo(1) has succeeded on a collection of two tasks: the
\* first entry is the server's task with the new title, the second is as it
\* was.
C13_Witness ==
  /\ returned = RetData("update", <<Todo(1, "b", FALSE)>>)
  /\ todos = <<Todo(1, "b", FALSE), Todo(2, "a", FALSE)>>

\* C14: when the PUT of toggleTodoCompleted(id) succeeds, the entries with
\* that id become the server's task, with all its fields, nothing else in the
\* collection changes, and the server's task is what the call returns.
C14_ToggleAdoptsResponse ==
  [][\A r \in ReqIds :
       Delivered(r, "toggle")
       => /\ Len(todos') = Len(todos)
          /\ \A i \in 1..Len(todos) :
               todos'[i] = IF todos[i].id = reqs[r].id
                           THEN reqs[r].resp[1]
                           ELSE todos[i]
          /\ returned' = RetData("toggle", reqs[r].resp)]_vars

\* C14 witness: a toggle has succeeded whose response carried a title changed
\* on the server by an updateTodo that has not been applied locally yet: the
\* entry has the new title and the toggled `completed`.
C14_Witness ==
  /\ returned = RetData("toggle", <<Todo(1, "b", TRUE)>>)
  /\ todos = <<Todo(1, "b", TRUE)>>
  /\ \E r \in ReqIds : reqs[r].op = "update" /\ Answered(r)

\* C15: toggleTodoCompleted(id) for an id that is not in the collection throws
\* "Todo not found", sends no request and leaves the collection unchanged.
\* The collection is the one the caller has been given, `todos` of the last
\* committed render, which is where the function looks the id up.
C15_ToggleUnknownId ==
  [][/\ \A id \in TaskIds :
          (CallToggleTodoCompleted(id) /\ ~HasId(rtodos, id))
          => /\ returned' = Ret("toggle", "notfound")
             /\ UNCHANGED <<todos, reqs>>
     /\ \A r \in ReqIds : Started(r, "toggle") => HasId(rtodos, reqs'[r].id)]_vars

\* C15 witness: toggleTodoCompleted(2) has thrown "Todo not found" while the
\* collection, fetched and rendered, holds task 1 only; nothing is in flight.
C15_Witness ==
  /\ returned = Ret("toggle", "notfound")
  /\ token = "t1" /\ rtoken = token
  /\ todos = <<Todo(1, "a", FALSE)>> /\ rtodos = todos
  /\ \A r \in ReqIds : ~Pending(r)

\* The task calls that write nothing before their request is answered.
PlainOps == {"create", "update", "delete"}

\* C16: a createTodo, updateTodo or deleteTodo whose request fails has changed
\* nothing in the collection, neither when it was called nor when it failed,
\* and it throws the error: no value is returned.
C16_FailureLeavesCollection ==
  [][\A r \in ReqIds :
       /\ (\E op \in PlainOps : Started(r, op)) => todos' = todos
       /\ Failed(r, PlainOps)
          => /\ todos' = todos
             /\ returned' = Ret(reqs[r].op, "throw")
             /\ returned'.data = <<>>]_vars

\* C16 witness: deleteTodo(1) has thrown and task 1, fetched before, is still
\* the collection.
C16_Witness ==
  /\ returned = Ret("delete", "throw")
  /\ token = "t1" /\ rtoken = token
  /\ todos = <<Todo(1, "a", FALSE)>>
  /\ srv["u1"] = todos

\* The step in which the UI starts session call `op` in slot p.
Called(p, op) == sess[p].pc = "idle" /\ sess'[p].op = op

\* C17: a login whose POST brings no access_token returns false and has
\* changed nothing: token, user, isLoaded and the stored token are what they
\* were, no Preferences call has been issued and no profile fetch is sent.
C17_LoginWithoutTokenChangesNothing ==
  [][\A p \in SessIds :
       /\ Called(p, "login")
          => /\ UNCHANGED <<token, user, isLoaded, stored, sq>>
             /\ sess'[p].pc = "post"
       /\ (Returns(p, {"login"}) /\ sess[p].pc = "post")
          => /\ returned'.val = "false"
             /\ UNCHANGED <<token, user, isLoaded, stored, sq>>]_vars

\* C17 witness: the session was restored from the stored token, then a login
\* has returned false and the restored session is still there.
C17_Witness ==
  /\ returned.op = "login" /\ returned.val = "false" /\ returned.solo
  /\ token = "t1" /\ stored = "t1"
  /\ user = Profile("u1", "n0")
  /\ isLoaded

\* C18: login never throws: whatever the POST, Preferences.set, the profile
\* fetch and the Preferences.remove of a forced logout do, the call resolves
\* to true or to false.
C18_LoginNeverThrows ==
  [][\A p \in SessIds :
       Returns(p, {"login"})
       => /\ returned'.op = "login"
          /\ returned'.val \in {"true", "false"}]_vars

\* C18 witness: a login stored its token, its profile fetch failed and the
\* Preferences.remove of the forced logout was rejected (the token is still
\* stored); the login has returned false.
C18_Witness ==
  /\ returned.op = "login" /\ returned.val = "false"
  /\ stored = "t2"
  /\ token = NoToken /\ user = NoUser
  /\ isLoaded

\* The app has been started again since the UI's first session call: the slot
\* of a call that was made is free again.
Restarted == \E p \in 1..nSess : sess[p].pc = "idle"

\* The step of loadToken after Preferences.get has resolved.
LoaderResumes == sess[Loader].pc = "get_ok" /\ sess'[Loader].pc \in {"me", "done"}

\* C19: when the app is started again right after a logout that completed
\* alone, the new process starts logged out, not loaded, with nothing stored;
\* and a loadToken that reads no stored token sets isLoaded, ends there
\* without calling getCurrentUser or Preferences again, and leaves token and
\* user as they are: absent, isAuthenticated false, when no other call ran
\* beside it.
C19_RestoreWithoutToken ==
  [][/\ (/\ Restart
         /\ returned.op = "logout" /\ returned.val = "ok" /\ returned.solo
         /\ \A p \in SessIds : ~InFlight(p))
        => /\ stored' = NoToken
           /\ token' = NoToken /\ user' = NoUser /\ ~isLoaded'
     /\ (LoaderResumes /\ sess[Loader].arg = NoToken)
        => /\ isLoaded'
           /\ sess'[Loader].pc = "done"
           /\ returned'.op = "restore" /\ returned'.val = "ok"
           /\ UNCHANGED <<token, user, stored, sq>>
           /\ sess[Loader].solo
              => (token' = NoToken /\ user' = NoUser /\ ~isAuthenticated')]_vars

\* C19 witness: a logout completed alone, the app was started again, and the
\* loadToken of the new process has read that nothing is stored.
C19_Witness ==
  /\ Restarted
  /\ returned.op = "logout" /\ returned.val = "ok" /\ returned.solo
  /\ sess[Loader].pc = "get_ok" /\ sess[Loader].arg = NoToken /\ sess[Loader].solo
  /\ stored = NoToken

\* C20: logout clears token and user when it is called and issues the
\* Preferences.remove; when the remove has been carried out and no other call
\* ran beside it, it ends without an error with token and user absent and
\* nothing stored, whatever the session was before: logged in, already logged
\* out, or just logged out by a previous logout.  isLoaded is not touched.
C20_LogoutIdempotent ==
  [][\A p \in SessIds :
       /\ Called(p, "logout")
          => /\ token' = NoToken /\ user' = NoUser
             /\ sq' = Append(sq, p)
             /\ UNCHANGED <<stored, isLoaded>>
       /\ (Returns(p, {"logout"}) /\ sess[p].pc = "rm_ok" /\ sess[p].solo)
          => /\ returned'.val = "ok"
             /\ token' = NoToken /\ user' = NoUser /\ stored' = NoToken
             /\ ~isAuthenticated'
             /\ UNCHANGED isLoaded]_vars

\* C20 witness: logout has been called on a session that was already logged
\* out, with nothing stored (its Preferences.remove is still to be carried
\* out) and nothing else in flight.
C20_Witness ==
  \E p \in SessIds :
    /\ sess[p].op = "logout" /\ sess[p].pc = "rm" /\ sess[p].solo
    /\ stored = NoToken /\ token = NoToken /\ user = NoUser
    /\ isLoaded

\* loadToken has read a stored token and the profile fetch it has started
\* with it has not resolved yet.
RestoreFetchPending == sess[Loader].pc = "me"

\* C21: isLoaded is not true while the profile fetch of the restore is still
\* to resolve, whatever login or loginWithGoogle do in the meantime.
C21_NotLoadedBeforeRestore == isLoaded => ~RestoreFetchPending

\* C22, the part that lasts: once isLoaded is true, no later login, logout,
\* register or failed profile fetch makes it false again.
C22_LoadedStaysLoaded == [][isLoaded => isLoaded']_vars

\* C22: isLoaded is a one-shot flag: when the restore has come to its end,
\* however its storage read and its profile fetch resolved, isLoaded is true,
\* and once true it is never false again.
C22_LoadedOneShot ==
  [][/\ isLoaded => isLoaded'
     /\ (InFlight(Loader) /\ ~InFlight(Loader)') => isLoaded']_vars

\* The two calls that obtain a token.
LoginOps == {"login", "google"}

\* C23: login and loginWithGoogle send their profile fetch only when their
\* Preferences.set has been carried out, and return true only after that
\* fetch: the step that sends the fetch comes from a resolved write, the step
\* that carries the write out stores the token of the call, and while the
\* fetch of a call that ran alone is pending the token it fetches with is the
\* stored one.
C23_StoredBeforeFetch ==
  [][\A p \in SessIds :
       sess[p].op \in LoginOps
       => /\ (sess[p].pc # "me" /\ sess'[p].pc = "me")
             => /\ sess[p].pc = "set_ok"
                /\ sess[p].solo => stored = sess'[p].arg
          /\ (sess[p].pc = "set" /\ sess'[p].pc = "set_ok")
             => stored' = sess[p].arg
          /\ (Returns(p, LoginOps) /\ returned'.val = "true")
             => sess[p].pc \in {"me", "rm_ok"}]_vars

\* C23 witness: a login that ran alone has stored its token and its profile
\* fetch is pending.
C23_Witness ==
  \E p \in SessIds :
    /\ sess[p].op = "login" /\ sess[p].pc = "me" /\ sess[p].solo
    /\ sess[p].arg = "t2" /\ stored = "t2" /\ token = "t2"

\* C24: updateProfile writes nothing when it is called; when its PUT fails it
\* throws and user, token and the stored token are what they were; when the
\* PUT succeeds `user` becomes the server's response, the profile of the
\* bearer's account with the new name, and token and storage are untouched.
C24_UpdateProfileOnSuccessOnly ==
  [][\A p \in SessIds :
       /\ Called(p, "updateProfile")
          => UNCHANGED <<user, token, stored, sq, srvName>>
       /\ (Returns(p, {"updateProfile"}) /\ returned'.val = "throw")
          => UNCHANGED <<user, token, stored, sq, srvName>>
       /\ (Returns(p, {"updateProfile"}) /\ returned'.val # "throw")
          => /\ returned'.val = "ok"
             /\ user' = Profile(Owner(sess[p].arg), srvName'[Owner(sess[p].arg)])
             /\ srvName'[Owner(sess[p].arg)] = "n1"
             /\ UNCHANGED <<token, stored, sq>>]_vars

\* C24 witness: the session was restored, updateProfile has thrown, and the
\* user is the profile as it was fetched.
C24_Witness ==
  /\ returned.op = "updateProfile" /\ returned.val = "throw"
  /\ user = Profile("u1", "n0")
  /\ token = "t1" /\ stored = "t1"

\* Toggle r2 was started on the id of toggle r1 while r1 was awaiting its
\* response, and the entry still shows what r2 wrote.
Reentered(r1, r2) ==
  /\ r1 # r2
  /\ reqs[r1].op = "toggle" /\ reqs[r2].op = "toggle"
  /\ reqs[r1].id = reqs[r2].id
  /\ Sent(r1) /\ Pending(r2)
  /\ ~reqs[r1].clean /\ reqs[r2].clean
  /\ reqs[r2].seen # <<>>

\* C25: a toggle that fails while a later toggle of the same id is in flight
\* writes its own captured `completed` into the entry, whatever the later
\* call is showing there: when the two differ the optimistic value of the
\* later call is overwritten.
C25_RollbackIgnoresLaterToggle ==
  [][\A r1, r2 \in ReqIds :
       (Reentered(r1, r2) /\ Failed(r1, {"toggle"}))
       => /\ HasId(todos', reqs[r1].id)
          /\ \A i \in Holding(todos', reqs[r1].id) : todos'[i].completed = reqs[r1].cap
          /\ reqs'[r2].op = "toggle" /\ ~reqs'[r2].clean]_vars

\* C25 witness: the hazard armed, with two toggles of task 1 and a refresh of
\* the list that arrived between them.  The second toggle shows its optimistic
\* completed = TRUE, the first is still awaiting its response and captured
\* FALSE: its failure writes FALSE over it.
C25_Witness ==
  /\ nTask = 3
  /\ returned.op = "get"
  /\ Cardinality({r \in ReqIds : Pending(r)}) = 2
  /\ \E r1, r2 \in ReqIds :
       /\ Reentered(r1, r2)
       /\ reqs[r1].id = 1
       /\ reqs[r1].cap = FALSE
       /\ reqs[r2].seen = <<FALSE>>
       /\ Find(todos, 1).completed = TRUE

\* With the two toggles alone, and no other write between them, the second
\* call shows what the first captured: the rollback writes the same value.
C25_TwoTogglesAlone ==
  \A r1, r2 \in ReqIds :
    (Reentered(r1, r2) /\ nTask = 2) => Find(todos, reqs[r1].id).completed = reqs[r1].cap

\* The step in which the profile fetch of call p fails: getCurrentUser goes to
\* its catch block.
ProfileFetchFails(p) == sess[p].pc = "me" /\ sess'[p].pc = "rm"

\* C26: a profile fetch that fails when the token it was sent with is no
\* longer the current one leaves the current session alone: token and user
\* stay and no removal of the stored token is issued.
C26_StaleFailureSparesSession ==
  [][\A p \in SessIds :
       (/\ ProfileFetchFails(p)
        /\ token \in Tokens
        /\ token # sess[p].arg)
       => /\ UNCHANGED <<token, user>>
          /\ sq' = sq]_vars

\* C27: whenever `user` is present and no session call is in flight, `user`
\* is the profile of the account of the current token, for every interleaving
\* of the restore, login and loginWithGoogle.  Stated for the most favourable
\* case: the current token is also the stored one (no storage call of the
\* run was rejected after it).
C27_UserBelongsToToken ==
  (/\ user # NoUser
   /\ \A p \in SessIds : ~InFlight(p)
   /\ token \in Tokens
   /\ stored = token)
  => user.id = Owner(token)

\* C28: in every reachable state the collection holds at most one entry per
\* id, for every interleaving of the responses of createTodo and getTodos.
C28_OneEntryPerId == \A id \in TaskIds : Cardinality(Holding(todos, id)) <= 1

\* C29: once the requests in flight have resolved and the token has been
\* rendered, the collection shows tasks of the current user only: none when
\* the token is absent, and otherwise none that is in another account's list
\* on the server.
C29_OnlyCurrentUsersTasks ==
  (rtoken = token /\ \A r \in ReqIds : ~Pending(r))
  => IF token = NoToken
     THEN todos = <<>>
     ELSE \A i \in 1..Len(todos) :
            \A u \in Users \ {Owner(token)} : ~HasId(srv[u], todos[i].id)

\* C30: the task store sends a task request only while isLoaded is true: no
\* step puts a request in flight while the session is still being restored.
C30_NoRequestBeforeLoaded ==
  [][(\E r \in ReqIds : ~Pending(r) /\ reqs'[r].pc = "sent") => isLoaded]_vars

\* The ids of s, in order.
Ids(s) == [i \in 1..Len(s) |-> s[i].id]

\* The ids that occur in s.
IdSet(s) == {s[i].id : i \in 1..Len(s)}

\* A local-state write of updateTodo or toggleTodoCompleted: the optimistic
\* flip, the write after the response, the rollback.
UpdateOrToggleWrites ==
  \E r \in ReqIds :
    \/ Started(r, "toggle")
    \/ Delivered(r, "update")
    \/ Delivered(r, "toggle")
    \/ Failed(r, {"update", "toggle"})

\* C31: a write of updateTodo or toggleTodoCompleted leaves the sequence of
\* ids of the collection as it was; an id enters the collection only when the
\* response of a create or a fetch arrives and leaves it only when the response
\* of a delete or a fetch arrives.
C31_UpdateToggleKeepIds ==
  [][/\ UpdateOrToggleWrites => Ids(todos') = Ids(todos)
     /\ IdSet(todos') \ IdSet(todos) # {}
        => \E r \in ReqIds : Delivered(r, "create") \/ Delivered(r, "get")
     /\ IdSet(todos) \ IdSet(todos') # {}
        => \E r \in ReqIds : Delivered(r, "delete") \/ Delivered(r, "get")]_vars

\* A toggle's response has been applied after its id had left the collection.
C31_Witness ==
  /\ returned.op = "toggle"
  /\ returned.val = "ok"
  /\ ~HasId(todos, returned.data[1].id)

\* C32: when toggleTodoCompleted(id) sends its PUT, the `completed` it sends
\* (the negation of the value found in the closure's todos) is the value the
\* entry of the collection shows after the optimistic flip of that call.
C32_SentEqualsShown ==
  [][\A r \in ReqIds :
       (Started(r, "toggle") /\ HasId(todos', reqs'[r].id))
       => Find(todos', reqs'[r].id).completed = ~reqs'[r].cap]_vars

\* No session call is in flight: the restore and every call of the UI have
\* settled.
SessionQuiet == \A p \in SessIds : ~InFlight(p)

\* C33: whenever no session call is in flight, the token in memory is the
\* token in Preferences (both absent or the same string).
C33_TokenMirrorsStorage == SessionQuiet => token = stored

====
